---- MODULE Spec2Model ----
(***************************************************************************)
(* Model of the MP3 helper scripts mp3processor.py and mp3tags.py: tag     *)
(* reading and writing, waveform extraction, audio processing and the      *)
(* command dispatchers.                                                    *)
(*                                                                         *)
(* Text is modelled as a sequence of one-character strings, so that        *)
(* split("/") and the [:4] slice are computed and not assumed.             *)
(***************************************************************************)
EXTENDS Integers, Sequences, FiniteSets, TLC

VARIABLES
    file,      \* the MP3 file on disk: [id3, frames, whereFrom]
    script,    \* which script the last invocation ran
    op,        \* the last operation: "none", "write" or "read"
    data,      \* the payload of the last write_tags call
    wresult,   \* the dict the last write_tags call returned
    result,    \* the dict the last operation returned
    nwrites,   \* number of write invocations so far
    samples,   \* the decoded mono sample stream of the file
    num_samples, \* the sample count of the last waveform call
    decoded,   \* the last waveform call had pydub and could decode the file
    wave,      \* what the last waveform call returned
    ppc,       \* position of process_audio: idle, called, tempo, encode, returned
    stage,     \* the last statement process_audio reached
    pdata,     \* the payload of the process_audio call, defaults applied
    source,    \* the source file of process_audio: [duration_ms, id3, frames]
    dest,      \* the destination file: [exists, written, id3, frames, dur]
    tmp,       \* the temporary files that exist
    trimmed,   \* duration in ms of the trimmed audio
    filters,   \* the ffmpeg filter chain built so far
    remaining_speed, \* the loop variable of the tempo chain
    presult,   \* the dict process_audio returned
    mpc,       \* position of the script: start, in_process, exited
    argv,      \* the invocation: [script, command, nargs, text]
    stdout,    \* the lines written to standard output, as "ok" or "error"
    exitcode,  \* the exit status, -1 while running
    stderr     \* "traceback" once an uncaught exception ended the script

tagVars == <<file, script, op, data, wresult, result, nwrites>>
waveVars == <<samples, num_samples, decoded, wave>>
procVars == <<ppc, stage, pdata, source, dest, tmp, trimmed, filters,
              remaining_speed, presult>>

mainVars == <<mpc, argv, stdout, exitcode, stderr>>

vars == <<tagVars, waveVars, procVars, mainVars>>

(***************************************************************************)
(* Bounds                                                                  *)
(***************************************************************************)
\* write invocations in one behaviour
MaxWrites == 1
\* length of the longest combined date-time (TDRC) text of a starting file
MaxDateLen == 5
\* length of the longest decoded sample stream
MaxStream == 3
\* samples range over -(MaxAmp + 1) .. MaxAmp, as two's complement does
MaxAmp == 1
\* largest sample count asked of get_waveform
MaxCount == 4
\* largest speed of a process payload, in quarters
MaxSpeed4 == 17
\* longest filter chain the tempo loop may build before the model stops it
MaxStages == 6

Min(a, b) == IF a < b THEN a ELSE b
Max(a, b) == IF a > b THEN a ELSE b

(***************************************************************************)
(* Texts                                                                   *)
(***************************************************************************)
Empty == << >>
TxtA == <<"a">>
TxtB == <<"b">>
Txt3 == <<"3">>
Txt3of12 == <<"3", "/", "1", "2">>
Txt1999 == <<"1", "9", "9", "9">>
TxtOne == <<"1">>
TxtZero == <<"0">>
TxtDate == <<"2", "0", "2", "0", "-", "0", "5", "-", "1", "7">>
TxtUrl == <<"u">>

\* s[:n]
Take(s, n) == SubSeq(s, 1, Min(n, Len(s)))

\* s.split("/")[0]
SplitFirst(s) ==
    IF \E i \in 1..Len(s) : s[i] = "/"
    THEN SubSeq(s, 1, (CHOOSE i \in 1..Len(s) :
                          s[i] = "/" /\ \A j \in 1..(i - 1) : s[j] # "/") - 1)
    ELSE s

(***************************************************************************)
(* JSON values of payloads and results                                     *)
(***************************************************************************)
JStr(s) == [t |-> "str", s |-> s, b |-> FALSE]
JBool(b) == [t |-> "bool", s |-> Empty, b |-> b]
JNull == [t |-> "null", s |-> Empty, b |-> FALSE]

\* Python truthiness of a JSON value
Truthy(v) ==
    CASE v.t = "str" -> v.s # Empty
      [] v.t = "bool" -> v.b
      [] OTHER -> FALSE

(***************************************************************************)
(* Frames and tag sets                                                     *)
(***************************************************************************)
\* a text frame holds a list of texts; an APIC frame holds data and mime
TextFrame(s) == [text |-> <<s>>, data |-> Empty, mime |-> Empty]
EmptyTextFrame == [text |-> << >>, data |-> Empty, mime |-> Empty]
ApicFrame(d, m) == [text |-> << >>, data |-> d, mime |-> m]

ImgP == <<"p">>
ImgQ == <<"q">>
MimePng == <<"g">>
MimeJpg == <<"j">>

\* base64 of the image bytes used in the model
B64Table == {<<ImgP, <<"c", "A", "=", "=">> >>, <<ImgQ, <<"c", "Q", "=", "=">> >>}
b64encode(d) == (CHOOSE p \in B64Table : p[1] = d)[2]
b64decode(e) == (CHOOSE p \in B64Table : p[2] = e)[1]

NoFrames == [k \in {} |-> EmptyTextFrame]

SetFrame(fr, k, v) == [x \in (DOMAIN fr) \cup {k} |-> IF x = k THEN v ELSE fr[x]]
DelFrame(fr, k) == [x \in (DOMAIN fr) \ {k} |-> fr[x]]

\* key.startswith("APIC")
IsApicKey(k) == k \in {"APIC:Cover", "APIC:"}

Fields == {"title", "artist", "album", "genre", "year", "track", "disc", "bpm",
           "compilation"}

FrameOf(f) ==
    CASE f = "title" -> "TIT2"
      [] f = "artist" -> "TPE1"
      [] f = "album" -> "TALB"
      [] f = "genre" -> "TCON"
      [] f = "year" -> "TYER"
      [] f = "track" -> "TRCK"
      [] f = "disc" -> "TPOS"
      [] f = "bpm" -> "TBPM"
      [] f = "compilation" -> "TCMP"

(***************************************************************************)
(* Results                                                                 *)
(***************************************************************************)
ErrorResult == [k \in {"error"} |-> JStr(<<"e">>)]
SuccessResult == [k \in {"success"} |-> JBool(TRUE)]
IsError(r) == "error" \in DOMAIN r

\* get_text(frame_id) of read_tags
get_text(tags, fid) ==
    IF fid \in DOMAIN tags /\ tags[fid].text # << >>
    THEN tags[fid].text[1]
    ELSE Empty

\* the track and disc numerators
Numerator(tags, fid) ==
    LET s == get_text(tags, fid) IN IF s # Empty THEN SplitFirst(s) ELSE Empty

\* bool(tcmp and tcmp.text and str(tcmp.text[0]) == "1")
CompilationFlag(tags) ==
    "TCMP" \in DOMAIN tags /\ tags["TCMP"].text # << >>
        /\ tags["TCMP"].text[1] = TxtOne

\* year of mp3processor.py: TYER, else the first four characters of TDRC
YearProcessor(tags) ==
    LET year == get_text(tags, "TYER") IN
    IF year # Empty THEN year
    ELSE LET tdrc == get_text(tags, "TDRC") IN
         IF tdrc # Empty THEN Take(tdrc, 4) ELSE Empty

\* year of mp3tags.py: (TYER or TDRC[:4]) if TDRC else ""
YearTags(tags) ==
    IF get_text(tags, "TDRC") # Empty
    THEN IF get_text(tags, "TYER") # Empty
         THEN get_text(tags, "TYER")
         ELSE Take(get_text(tags, "TDRC"), 4)
    ELSE Empty

CommonKeys == Fields
ProcessorDefaultKeys == Fields \cup {"artwork_data", "artwork_mime"}
ProcessorKeys == ProcessorDefaultKeys \cup {"where_from"}

\* the nine fields both scripts return
CommonField(tags, k, year) ==
    CASE k = "title" -> JStr(get_text(tags, "TIT2"))
      [] k = "artist" -> JStr(get_text(tags, "TPE1"))
      [] k = "album" -> JStr(get_text(tags, "TALB"))
      [] k = "genre" -> JStr(get_text(tags, "TCON"))
      [] k = "year" -> JStr(year)
      [] k = "track" -> JStr(Numerator(tags, "TRCK"))
      [] k = "disc" -> JStr(Numerator(tags, "TPOS"))
      [] k = "bpm" -> JStr(get_text(tags, "TBPM"))
      [] k = "compilation" -> JBool(CompilationFlag(tags))

DefaultField(k) ==
    CASE k = "compilation" -> JBool(FALSE)
      [] k \in {"artwork_data", "artwork_mime"} -> JNull
      [] OTHER -> JStr(Empty)

ApicKeys(tags) == {k \in DOMAIN tags : IsApicKey(k)}

\* read_tags of mp3processor.py.  loadOk: MP3(filepath) succeeds; firstApic:
\* the APIC key the iteration over tags.keys() meets first; xattrOk: the
\* extended attribute can be read.
ReadTagsProcessor(f, loadOk, firstApic, xattrOk) ==
    IF ~loadOk THEN ErrorResult
    ELSE IF ~f.id3 THEN [k \in ProcessorDefaultKeys |-> DefaultField(k)]
    ELSE LET tags == f.frames
             hasArt == firstApic \in ApicKeys(tags)
         IN [k \in ProcessorKeys |->
                CASE k = "artwork_data" ->
                        IF hasArt THEN JStr(b64encode(tags[firstApic].data))
                        ELSE JNull
                  [] k = "artwork_mime" ->
                        IF hasArt THEN JStr(tags[firstApic].mime) ELSE JNull
                  [] k = "where_from" ->
                        IF xattrOk /\ f.whereFrom # << >>
                        THEN JStr(f.whereFrom[1]) ELSE JNull
                  [] OTHER -> CommonField(tags, k, YearProcessor(tags))]

\* read_tags of mp3tags.py
ReadTagsTags(f, loadOk) ==
    IF ~loadOk THEN ErrorResult
    ELSE IF ~f.id3 THEN [k \in CommonKeys |-> DefaultField(k)]
    ELSE [k \in CommonKeys |-> CommonField(f.frames, k, YearTags(f.frames))]

(***************************************************************************)
(* write_tags                                                              *)
(***************************************************************************)
\* data.get(k)
Get(d, k) == IF k \in DOMAIN d THEN d[k] ELSE JNull

\* the order in which write_tags handles the fields
FieldOrder == <<"title", "artist", "album", "genre", "year", "track", "disc",
                "bpm", "compilation">>

\* UpdateField with an absent key taken as an empty value
UpdateField_AbsentClears(tags, d, f) ==
    IF f \in DOMAIN d /\ Truthy(d[f])
    THEN SetFrame(tags, FrameOf(f),
                  TextFrame(IF f = "compilation" THEN TxtOne ELSE d[f].s))
    ELSE DelFrame(tags, FrameOf(f))

\* one "if <field> in data" block of write_tags
UpdateField(tags, d, f) ==
    IF f \in DOMAIN d
    THEN IF Truthy(d[f])
         THEN SetFrame(tags, FrameOf(f),
                       TextFrame(IF f = "compilation" THEN TxtOne ELSE d[f].s))
         ELSE DelFrame(tags, FrameOf(f))
    ELSE tags

RECURSIVE UpdateFields(_, _, _)
\* the nine blocks, in order, from the i-th on
UpdateFields(tags, d, i) ==
    IF i > Len(FieldOrder) THEN tags
    ELSE UpdateFields(UpdateField(tags, d, FieldOrder[i]), d, i + 1)

\* removal of every APIC frame
DropApic(tags) == [k \in (DOMAIN tags) \ ApicKeys(tags) |-> tags[k]]

ValidB64(e) == \E p \in B64Table : p[2] = e

\* base64.b64decode raises on the payload's artwork_data
ArtworkRaises(d) ==
    /\ ~Truthy(Get(d, "artwork_delete"))
    /\ Truthy(Get(d, "artwork_data")) /\ Truthy(Get(d, "artwork_mime"))
    /\ ~ValidB64(d["artwork_data"].s)

\* the album-art block of mp3processor.py's write_tags
UpdateArtwork(tags, d) ==
    IF Truthy(Get(d, "artwork_delete")) THEN DropApic(tags)
    ELSE IF Truthy(Get(d, "artwork_data")) /\ Truthy(Get(d, "artwork_mime"))
    THEN SetFrame(DropApic(tags), "APIC:Cover",
                  ApicFrame(b64decode(d["artwork_data"].s), d["artwork_mime"].s))
    ELSE tags

\* the "Where from" block: runs after the save, failures are swallowed
UpdateWhereFrom(w, d, xattrOk) ==
    IF "where_from" \in DOMAIN d /\ xattrOk
    THEN IF Truthy(d["where_from"]) THEN <<d["where_from"].s>> ELSE << >>
    ELSE w

\* tags of the loaded file, after add_tags() when it had none
LoadedTags(f) == IF f.id3 THEN f.frames ELSE NoFrames

\* write_tags of mp3processor.py: the file and the result it leaves.
\* loadOk: MP3(filepath) succeeds; saveOk: audio.save() succeeds.
WriteTagsProcessor(f, d, loadOk, saveOk, xattrOk) ==
    IF ~loadOk \/ ArtworkRaises(d) \/ ~saveOk
    THEN [file |-> f, result |-> ErrorResult]
    ELSE [file |-> [id3 |-> TRUE,
                    frames |-> UpdateArtwork(UpdateFields(LoadedTags(f), d, 1), d),
                    whereFrom |-> UpdateWhereFrom(f.whereFrom, d, xattrOk)],
          result |-> SuccessResult]

\* write_tags of mp3tags.py
WriteTagsTags(f, d, loadOk, saveOk) ==
    IF ~loadOk \/ ~saveOk
    THEN [file |-> f, result |-> ErrorResult]
    ELSE [file |-> [id3 |-> TRUE,
                    frames |-> UpdateFields(LoadedTags(f), d, 1),
                    whereFrom |-> f.whereFrom],
          result |-> SuccessResult]

(***************************************************************************)
(* Inputs of the tag operations                                            *)
(***************************************************************************)
Scripts == {"mp3processor", "mp3tags"}

TextValues == {Empty, TxtA}

\* the values a payload may carry under a key
PayloadValues(k) ==
    CASE k \in {"title", "artist", "album", "genre", "bpm"} ->
            {JStr(v) : v \in TextValues}
      [] k = "year" -> {JStr(Empty), JStr(Txt1999)}
      [] k \in {"track", "disc"} -> {JStr(Empty), JStr(Txt3)}
      [] k = "compilation" -> {JBool(TRUE), JBool(FALSE), JStr(Empty)}
      [] k = "artwork_delete" -> {JBool(TRUE), JBool(FALSE)}
      [] k = "artwork_data" ->
            {JStr(b64encode(ImgP)), JStr(<<"c">>), JStr(Empty)}
      [] k = "artwork_mime" -> {JStr(MimePng)}
      [] k = "where_from" -> {JStr(TxtUrl), JStr(Empty)}

PayloadKeys == Fields \cup {"artwork_delete", "artwork_data", "artwork_mime",
                            "where_from"}

\* the key sets of the payloads: none, each key alone, and some together
KeySets ==
    {{}} \cup {{k} : k \in PayloadKeys}
        \cup {{"artwork_data", "artwork_mime"},
              {"artwork_delete", "artwork_data", "artwork_mime"},
              {"year", "track"}, {"title", "compilation", "where_from"},
              {"disc", "bpm", "artwork_delete"}}

AllPayloadValues == UNION {PayloadValues(k) : k \in PayloadKeys}

Payloads ==
    UNION {{d \in [K -> AllPayloadValues] : \A k \in K : d[k] \in PayloadValues(k)}
              : K \in KeySets}

EmptyPayload == [k \in {} |-> JNull]

\* the TDRC texts of the starting files: prefixes of a date
DateTexts == {Take(TxtDate, n) : n \in 1..Min(MaxDateLen, Len(TxtDate))}

\* a release made with ID3v2.4 tags: combined date, track of total, cover
FramesV24(date) ==
    [k \in {"TIT2", "TPE1", "TDRC", "TRCK", "TPOS", "TCMP", "COMM", "APIC:Cover"}
        |-> CASE k = "TIT2" -> TextFrame(TxtB)
              [] k = "TPE1" -> TextFrame(TxtA)
              [] k = "TDRC" -> TextFrame(date)
              [] k = "TRCK" -> TextFrame(Txt3of12)
              [] k = "TPOS" -> TextFrame(TxtOne)
              [] k = "TCMP" -> TextFrame(TxtZero)
              [] k = "COMM" -> TextFrame(TxtB)
              [] k = "APIC:Cover" -> ApicFrame(ImgQ, MimeJpg)]

\* a rip with ID3v2.3 tags: year frame, two pictures, an empty genre frame
FramesV23 ==
    [k \in {"TALB", "TYER", "TCON", "TBPM", "TCMP", "TXXX", "APIC:", "APIC:Cover"}
        |-> CASE k = "TALB" -> TextFrame(TxtA)
              [] k = "TYER" -> TextFrame(Txt1999)
              [] k = "TCON" -> EmptyTextFrame
              [] k = "TBPM" -> TextFrame(TxtB)
              [] k = "TCMP" -> TextFrame(TxtOne)
              [] k = "TXXX" -> TextFrame(TxtA)
              [] k = "APIC:" -> ApicFrame(ImgP, MimePng)
              [] k = "APIC:Cover" -> ApicFrame(ImgQ, MimeJpg)]

\* both year frames at once
FramesBothYears(date) ==
    [k \in {"TYER", "TDRC"}
        |-> IF k = "TYER" THEN TextFrame(Txt1999) ELSE TextFrame(date)]

StartFrames ==
    {NoFrames, FramesV23} \cup {FramesV24(dt) : dt \in DateTexts}
        \cup {FramesBothYears(dt) : dt \in DateTexts}

StartFiles ==
    {[id3 |-> FALSE, frames |-> NoFrames, whereFrom |-> w] : w \in {<< >>, <<TxtUrl>>}}
        \cup {[id3 |-> TRUE, frames |-> fr, whereFrom |-> w] :
                 fr \in StartFrames, w \in {<< >>, <<TxtUrl>>}}

(***************************************************************************)
(* get_waveform                                                            *)
(***************************************************************************)
Abs(x) == IF x < 0 THEN -x ELSE x

SeqMin(q) == CHOOSE x \in {q[i] : i \in 1..Len(q)} : \A j \in 1..Len(q) : x <= q[j]
SeqMax(q) == CHOOSE x \in {q[i] : i \in 1..Len(q)} : \A j \in 1..Len(q) : x >= q[j]

\* max(abs(min(q)), abs(max(q)))
Peak(q) == Max(Abs(SeqMin(q)), Abs(SeqMax(q)))

\* Peak that looks at the largest sample only
MaxAmplitude_NoAbsMin(q) == IF q # << >> THEN SeqMax(q) ELSE 1

\* max_amplitude: the global peak, 1 for an empty stream
MaxAmplitude(q) == IF q # << >> THEN Peak(q) ELSE 1

\* chunk_size = max(1, len(samples) // num_samples), num_samples # 0;
\* a negative num_samples floors the quotient to 0 or below
ChunkSize(len, n) == IF n > 0 THEN Max(1, len \div n) ELSE 1

\* a float p / q, kept as the pair; q = 0 is a division that raises
Ratio(p, q) == <<p, q>>
Zero == <<0, 1>>

\* the value appended for chunk i (0-based) of the stream
ChunkValue(q, i, chunk_size, max_amplitude) ==
    LET start == i * chunk_size
        end == Min(start + chunk_size, Len(q))
    IN IF start >= Len(q) THEN Zero
       ELSE LET chunk == SubSeq(q, start + 1, end)
                peak == IF chunk # << >> THEN Peak(chunk) ELSE 0
            IN IF max_amplitude # 0 THEN Ratio(peak, max_amplitude) ELSE Zero

WaveError == [error |-> TRUE, waveform |-> << >>, duration |-> Zero]

\* get_waveform(filepath, num_samples).  pydubOk: pydub was imported; loadOk:
\* AudioSegment.from_mp3 succeeds and yields the stream q (one sample per
\* millisecond).
GetWaveformResult(q, n, pydubOk, loadOk) ==
    IF ~pydubOk \/ ~loadOk \/ n = 0 THEN WaveError
    ELSE LET chunk_size == ChunkSize(Len(q), n)
             max_amplitude == MaxAmplitude(q)
             waveform == [i \in 1..Max(n, 0) |->
                             ChunkValue(q, i - 1, chunk_size, max_amplitude)]
         IN IF \E i \in 1..Len(waveform) : waveform[i][2] = 0
            THEN WaveError
            ELSE [error |-> FALSE, waveform |-> waveform,
                  duration |-> Ratio(Len(q), 1000)]

SampleValues == (-(MaxAmp + 1))..MaxAmp
Streams == UNION {[1..n -> SampleValues] : n \in 0..MaxStream}
Counts == (-1)..MaxCount

NoWave == [error |-> FALSE, waveform |-> << >>, duration |-> Zero]

WaveUnused ==
    /\ samples = << >>
    /\ num_samples = 0
    /\ decoded = FALSE
    /\ wave = NoWave

InitWave ==
    /\ samples \in Streams
    /\ num_samples = 0
    /\ decoded = FALSE
    /\ wave = NoWave

\* mp3processor.py waveform <filepath> [num_samples]
GetWaveform ==
    /\ \E n \in Counts, pydubOk, loadOk \in BOOLEAN :
          /\ num_samples' = n
          /\ decoded' = (pydubOk /\ loadOk)
          /\ wave' = GetWaveformResult(samples, n, pydubOk, loadOk)
    /\ UNCHANGED samples
    /\ UNCHANGED <<tagVars, procVars, mainVars>>

(***************************************************************************)
(* process_audio                                                           *)
(***************************************************************************)
SampleRate == 44100

\* int(sample_rate * 2 ** (pitch_shift / 12.0))
NewRate(pitch_shift) ==
    CASE pitch_shift = -12 -> 22050
      [] pitch_shift = -1 -> 41624
      [] pitch_shift = 1 -> 46722
      [] pitch_shift = 12 -> 88200

\* int(x) of the float n / d: truncation toward zero
IntOf(n, d) == IF n >= 0 THEN n \div d ELSE -((-n) \div d)

\* audio[start_ms:end_ms] of a segment of len ms, 0 <= start_ms, end_ms:
\* both ends are cut to the length, an inverted range is empty
SliceLen(len, start_ms, end_ms) == Max(0, Min(end_ms, len) - Min(start_ms, len))

Stage(name, n, d) == [name |-> name, num |-> n, den |-> d]

\* the asetrate and aresample stages of a pitch shift
PitchStages(pitch_shift) ==
    IF pitch_shift # 0
    THEN <<Stage("asetrate", NewRate(pitch_shift), 1), Stage("aresample", SampleRate, 1)>>
    ELSE << >>

\* effective_speed of lines 298 to 314
EffectiveSpeed(pitch_shift, speed) ==
    IF pitch_shift # 0
    THEN IF speed[1] # speed[2] THEN speed ELSE <<1, 1>>
    ELSE speed

\* remaining_speed < 0.5 or remaining_speed > 2.0
OutOfRange(r) == 2 * r[1] < r[2] \/ r[1] > 2 * r[2]

\* LoopStage that appends atempo=2.0 in both branches
LoopStage_AlwaysDouble(r) == Stage("atempo", 2, 1)

\* the stage one turn of the loop appends
LoopStage(r) == IF 2 * r[1] < r[2] THEN Stage("atempo", 1, 2) ELSE Stage("atempo", 2, 1)

\* remaining_speed after one turn: /= 0.5 or /= 2.0
LoopRemaining(r) == IF 2 * r[1] < r[2] THEN <<2 * r[1], r[2]>> ELSE <<r[1], 2 * r[2]>>

\* the stage appended after the loop when remaining_speed != 1.0
FinalStages(r) == IF r[1] # r[2] THEN <<Stage("atempo", r[1], r[2])>> ELSE << >>

TempoStages(f) == SelectSeq(f, LAMBDA st : st.name = "atempo")

RECURSIVE ProdNum(_)
ProdNum(f) == IF f = << >> THEN 1 ELSE Head(f).num * ProdNum(Tail(f))
RECURSIVE ProdDen(_)
ProdDen(f) == IF f = << >> THEN 1 ELSE Head(f).den * ProdDen(Tail(f))

\* duration of what ffmpeg writes for an input of ms milliseconds at 44100 Hz:
\* asetrate plays the samples at the new rate, atempo=r divides the duration
OutputDuration(ms, f) ==
    LET rate == SelectSeq(f, LAMBDA st : st.name = "asetrate")
        tempo == TempoStages(f)
    IN <<ms * ProdDen(tempo) * (IF rate # << >> THEN SampleRate ELSE 1),
         ProdNum(tempo) * (IF rate # << >> THEN rate[1].num ELSE 1)>>

\* copy_tags(source, dest).  srcOk, dstOk, saveOk: the two loads and the save
\* succeed; any failure is swallowed and leaves the destination as it was.
CopyTags(src, dst, srcOk, dstOk, saveOk) ==
    IF ~srcOk \/ ~src.id3 \/ ~dstOk \/ ~saveOk THEN dst
    ELSE [dst EXCEPT !.id3 = TRUE,
                     !.frames = [k \in (DOMAIN LoadedTags(dst)) \cup (DOMAIN src.frames) |->
                                    IF k \in DOMAIN src.frames THEN src.frames[k]
                                    ELSE LoadedTags(dst)[k]]]

\* the destination as the encoder writes it: audio of duration dur, and the
\* tag the encoder puts there, if any
Encoded(dur, enc) ==
    [exists |-> TRUE, written |-> TRUE, id3 |-> enc.id3, frames |-> enc.frames,
     dur |-> dur]

PitchShifts == {-12, -1, 0, 1, 12}
\* speeds in quarters; zero and a negative one are numbers a payload can carry
Speeds == {<<k, 4>> : k \in (-1)..MaxSpeed4}
TrimStarts == {<<0, 4>>, <<2, 4>>, <<3, 4>>}
TrimEnds == {<<2, 4>>, <<4, 4>>, <<5, 4>>}

\* the payloads of process_audio, after the defaults of data.get
ProcPayloads ==
    [isDict : {TRUE}, trim_start : TrimStarts, trim_end : TrimEnds,
     pitch_shift : PitchShifts, speed : Speeds]

DefaultProcPayload ==
    [isDict |-> TRUE, trim_start |-> <<0, 4>>, trim_end |-> <<4, 4>>,
     pitch_shift |-> 0, speed |-> <<4, 4>>]

SourceFrames ==
    [k \in {"TIT2", "TRCK"} |-> IF k = "TIT2" THEN TextFrame(TxtA) ELSE TextFrame(Txt3of12)]
EncoderFrames == [k \in {"TSSE"} |-> TextFrame(TxtB)]
OldDestFrames == [k \in {"TALB"} |-> TextFrame(TxtB)]

NoTag == [id3 |-> FALSE, frames |-> NoFrames]
\* what the encoder may put into its output: no tag, or its own TSSE frame
EncoderTags == {NoTag, [id3 |-> TRUE, frames |-> EncoderFrames]}

Sources ==
    {[duration_ms |-> ms, id3 |-> t.id3, frames |-> t.frames] :
        ms \in {7, 10}, t \in {NoTag, [id3 |-> TRUE, frames |-> SourceFrames]}}

NoDest == [exists |-> FALSE, written |-> FALSE, id3 |-> FALSE, frames |-> NoFrames,
           dur |-> Zero]
OldDest == [exists |-> TRUE, written |-> FALSE, id3 |-> TRUE, frames |-> OldDestFrames,
            dur |-> <<3, 1>>]

NoResult == [k \in {} |-> JNull]

ProcIdle ==
    /\ ppc = "idle"
    /\ stage = "none"
    /\ pdata = DefaultProcPayload
    /\ tmp = {}
    /\ trimmed = 0
    /\ filters = << >>
    /\ remaining_speed = <<1, 1>>
    /\ presult = NoResult

ProcUnused ==
    /\ ProcIdle
    /\ source = [duration_ms |-> 0, id3 |-> FALSE, frames |-> NoFrames]
    /\ dest = NoDest

InitProc ==
    /\ ProcIdle
    /\ source \in Sources
    /\ dest \in {NoDest, OldDest}

\* process_audio returns r, having reached statement st
Return(st, r) ==
    /\ ppc' = "returned"
    /\ stage' = st
    /\ presult' = r

\* a caller enters process_audio(source, dest, data)
ProcCall ==
    /\ ppc = "idle"
    /\ pdata' \in ProcPayloads
    /\ ppc' = "called"
    /\ UNCHANGED <<stage, source, dest, tmp, trimmed, filters, remaining_speed, presult>>
    /\ UNCHANGED <<tagVars, waveVars, mainVars>>

\* lines 268 to 319 and 354 to 363: load, trim, then either the plain export
\* and the tag copy, or the temporary input file and the start of the chain
ProcStart ==
    /\ ppc = "called"
    /\ \E pydubOk, loadOk, tmpInOk, exportOk, srcOk, dstOk, saveOk \in BOOLEAN, enc \in EncoderTags :
          LET start_ms == IntOf(source.duration_ms * pdata.trim_start[1], pdata.trim_start[2])
              end_ms == IntOf(source.duration_ms * pdata.trim_end[1], pdata.trim_end[2])
              len == SliceLen(source.duration_ms, start_ms, end_ms)
              speed == pdata.speed
              effective_speed == EffectiveSpeed(pdata.pitch_shift, speed)
          IN IF ~pydubOk \/ ~loadOk \/ ~pdata.isDict
             THEN /\ Return("load", ErrorResult)
                  /\ UNCHANGED <<dest, tmp, trimmed, filters, remaining_speed>>
             ELSE IF pdata.pitch_shift # 0 \/ speed[1] # speed[2]
             THEN /\ trimmed' = len
                  /\ IF ~tmpInOk
                     THEN /\ Return("tmp_in", ErrorResult)
                          /\ UNCHANGED <<dest, tmp, filters, remaining_speed>>
                     ELSE IF ~exportOk
                     THEN \* line 292 is outside the try ... finally
                          /\ Return("export_in", ErrorResult)
                          /\ tmp' = tmp \cup {"tmp_in"}
                          /\ UNCHANGED <<dest, filters, remaining_speed>>
                     ELSE /\ tmp' = tmp \cup {"tmp_in"}
                          /\ filters' = PitchStages(pdata.pitch_shift)
                          /\ stage' = "chain"
                          /\ IF effective_speed[1] # effective_speed[2]
                             THEN ppc' = "tempo" /\ remaining_speed' = effective_speed
                             ELSE ppc' = "encode" /\ UNCHANGED remaining_speed
                          /\ UNCHANGED <<dest, presult>>
             ELSE /\ trimmed' = len
                  /\ IF ~exportOk
                     THEN /\ Return("export_dest", ErrorResult)
                          /\ UNCHANGED dest
                     ELSE /\ Return("done", SuccessResult)
                          /\ dest' = CopyTags(source, Encoded(<<len, 1>>, enc),
                                               srcOk, dstOk, saveOk)
                  /\ UNCHANGED <<tmp, filters, remaining_speed>>
    /\ UNCHANGED <<pdata, source>>
    /\ UNCHANGED <<tagVars, waveVars, mainVars>>

\* lines 320 to 326: one turn of the while loop
TempoStep ==
    /\ ppc = "tempo"
    /\ OutOfRange(remaining_speed)
    /\ Len(filters) < MaxStages
    /\ filters' = Append(filters, LoopStage(remaining_speed))
    /\ remaining_speed' = LoopRemaining(remaining_speed)
    /\ UNCHANGED <<ppc, stage, pdata, source, dest, tmp, trimmed, presult>>
    /\ UNCHANGED <<tagVars, waveVars, mainVars>>

\* lines 327 to 363: the last stage, the temporary output file, ffmpeg, the
\* copy to the destination, the finally block, the tag copy
ProcFinish ==
    /\ \/ ppc = "tempo" /\ ~OutOfRange(remaining_speed)
       \/ ppc = "encode"
    /\ \E tmpOutOk, ffmpegOk, copyOk, srcOk, dstOk, saveOk \in BOOLEAN, enc \in EncoderTags :
          LET chain == IF ppc = "tempo"
                       THEN filters \o FinalStages(remaining_speed)
                       ELSE filters
          IN /\ filters' = chain
             /\ tmp' = tmp \ {"tmp_in", "tmp_out"}
             /\ IF ~tmpOutOk
                THEN Return("tmp_out", ErrorResult) /\ UNCHANGED dest
                ELSE IF ~ffmpegOk
                THEN Return("ffmpeg", ErrorResult) /\ UNCHANGED dest
                ELSE IF ~copyOk
                THEN Return("copy", ErrorResult) /\ UNCHANGED dest
                ELSE /\ Return("done", SuccessResult)
                     /\ dest' = CopyTags(source,
                                          Encoded(OutputDuration(trimmed, chain), enc),
                                          srcOk, dstOk, saveOk)
    /\ UNCHANGED <<pdata, source, trimmed, remaining_speed>>
    /\ UNCHANGED <<tagVars, waveVars, mainVars>>

NoArgv == [script |-> "none", command |-> "none", nargs |-> 0, text |-> ""]

MainUnused ==
    /\ mpc = "start"
    /\ argv = NoArgv
    /\ stdout = << >>
    /\ exitcode = -1
    /\ stderr = ""

(***************************************************************************)
(* The tag invocations                                                     *)
(***************************************************************************)
InitTags ==
    /\ file \in StartFiles
    /\ script = "none"
    /\ op = "none"
    /\ data = EmptyPayload
    /\ wresult = EmptyPayload
    /\ result = EmptyPayload
    /\ nwrites = 0

\* <script> write <filepath> <json>
WriteTags ==
    /\ nwrites < MaxWrites
    /\ \E s \in Scripts, d \in Payloads, loadOk, saveOk, xattrOk \in BOOLEAN :
          LET w == IF s = "mp3processor"
                   THEN WriteTagsProcessor(file, d, loadOk, saveOk, xattrOk)
                   ELSE WriteTagsTags(file, d, loadOk, saveOk)
          IN /\ file' = w.file
             /\ result' = w.result
             /\ wresult' = w.result
             /\ script' = s
             /\ data' = d
    /\ op' = "write"
    /\ nwrites' = nwrites + 1
    /\ UNCHANGED <<waveVars, procVars, mainVars>>

\* <script> read <filepath>
ReadTags ==
    /\ \E s \in Scripts, loadOk, xattrOk \in BOOLEAN, firstApic \in {"APIC:Cover", "APIC:"} :
          /\ firstApic \in ApicKeys(file.frames) \/ ApicKeys(file.frames) = {}
          /\ result' = IF s = "mp3processor"
                       THEN ReadTagsProcessor(file, loadOk, firstApic, xattrOk)
                       ELSE ReadTagsTags(file, loadOk)
          /\ script' = s
    /\ op' = "read"
    /\ UNCHANGED <<file, data, wresult, nwrites>>
    /\ UNCHANGED <<waveVars, procVars, mainVars>>

NextTags == WriteTags \/ ReadTags

TagsInit == InitTags /\ WaveUnused /\ ProcUnused /\ MainUnused

SpecTags == TagsInit /\ [][NextTags]_vars

(***************************************************************************)
(* Claims about the tag operations                                         *)
(***************************************************************************)
\* what a read is to return for a field written with value v
Expected(f, v) == IF f = "compilation" THEN JBool(Truthy(v)) ELSE v

\* a read_tags that follows a successful write_tags
ReadAfterWrite ==
    /\ op = "read" /\ ~IsError(result)
    /\ nwrites > 0 /\ ~IsError(wresult)

\* C2 as claimed: after a successful write_tags, read_tags of mp3processor.py
\* returns, for every supported field of the payload, the value written (the
\* empty string, false for compilation, when the empty string was written).
C2_RoundTrip ==
    (ReadAfterWrite /\ script = "mp3processor") =>
        \A f \in Fields \cap DOMAIN data : result[f] = Expected(f, data[f])

FieldFrames == {FrameOf(f) : f \in Fields}
ArtworkKeys == {"artwork_delete", "artwork_data", "artwork_mime"}

\* frame k is the same before and after the step
SameFrame(k) ==
    /\ (k \in DOMAIN LoadedTags(file)) = (k \in DOMAIN file'.frames)
    /\ k \in DOMAIN LoadedTags(file) => file'.frames[k] = LoadedTags(file)[k]

\* a step that is a successful write_tags call
WriteStep == op' = "write" /\ nwrites' = nwrites + 1 /\ ~IsError(result')

AllFrameIds == FieldFrames \cup {"TDRC", "COMM", "TXXX", "APIC:", "APIC:Cover"}

\* C3: a write_tags call changes only the frames of the fields present as keys
\* of its payload: the frame of an absent field is as before, the frame of a
\* field present with an empty value is gone, and every frame of no supported
\* field (the pictures count as the artwork field of mp3processor.py) is
\* still there, unchanged.
C3_PartialUpdate ==
    [][WriteStep =>
          /\ \A f \in Fields :
                /\ f \notin DOMAIN data' => SameFrame(FrameOf(f))
                /\ (f \in DOMAIN data' /\ ~Truthy(data'[f])) =>
                      FrameOf(f) \notin DOMAIN file'.frames
          /\ \A k \in AllFrameIds \ FieldFrames :
                (IsApicKey(k) /\ script' = "mp3processor"
                     /\ ArtworkKeys \cap DOMAIN data' # {})
                \/ SameFrame(k)]_vars

\* C3 witness: a write that cleared the year of the ID3v2.3 rip and left its
\* album, its user-defined frame and its pictures in place
C3_Witness ==
    /\ op = "write" /\ ~IsError(result)
    /\ DOMAIN data = {"year"} /\ ~Truthy(data["year"])
    /\ "TYER" \notin DOMAIN file.frames
    /\ {"TALB", "TXXX", "APIC:"} \subseteq DOMAIN file.frames

\* C9 as claimed, for both scripts: the year read is the TYER text when that
\* is non-empty, the first four characters of TDRC when TYER is absent and
\* TDRC present, and empty when both are absent.
C9_YearResolution ==
    (op = "read" /\ ~IsError(result)) =>
        LET tags == LoadedTags(file)
            tyer == get_text(tags, "TYER")
            tdrc == get_text(tags, "TDRC")
        IN /\ tyer # Empty => result["year"] = JStr(tyer)
           /\ ("TYER" \notin DOMAIN tags /\ "TDRC" \in DOMAIN tags) =>
                 result["year"] = JStr(Take(tdrc, 4))
           /\ ("TYER" \notin DOMAIN tags /\ "TDRC" \notin DOMAIN tags) =>
                 result["year"] = JStr(Empty)

(***************************************************************************)
(* The waveform invocations and the claim about them                       *)
(***************************************************************************)
TagsUnused ==
    /\ file = [id3 |-> FALSE, frames |-> NoFrames, whereFrom |-> << >>]
    /\ script = "none"
    /\ op = "none"
    /\ data = EmptyPayload
    /\ wresult = EmptyPayload
    /\ result = EmptyPayload
    /\ nwrites = 0

NextWave == GetWaveform

WaveInit == InitWave /\ TagsUnused /\ ProcUnused /\ MainUnused

SpecWave == WaveInit /\ [][NextWave]_vars

Silent(q) == \A i \in 1..Len(q) : q[i] = 0

\* C4: for every decoded stream and every sample_count > 0, get_waveform
\* returns no error and exactly sample_count values, each in [0,1]; for an
\* empty or all-zero stream every value is 0.
C4_Waveform ==
    (decoded /\ num_samples > 0) =>
        /\ ~wave.error
        /\ Len(wave.waveform) = num_samples
        /\ \A i \in 1..Len(wave.waveform) :
              LET v == wave.waveform[i] IN
              /\ v[2] > 0 /\ 0 <= v[1] /\ v[1] <= v[2]
              /\ Silent(samples) => v[1] = 0

\* C4 witness: a waveform of an all-zero stream that is not empty, and one of
\* a stream whose loudest sample is negative, with more values than samples
C4_Witness ==
    /\ decoded /\ num_samples > Len(samples) /\ ~wave.error
    /\ samples # << >>
    /\ Silent(samples) \/ (SeqMin(samples) < 0 /\ Abs(SeqMin(samples)) > SeqMax(samples))

(***************************************************************************)
(* The process invocations and the claims about them                       *)
(***************************************************************************)
NextProc == ProcCall \/ ProcStart \/ TempoStep \/ ProcFinish

ProcInit == InitProc /\ TagsUnused /\ WaveUnused /\ MainUnused

SpecProc == ProcInit /\ [][NextProc]_vars
\* the statements at which the filter chain is complete
ChainStages == {"tmp_out", "ffmpeg", "copy", "done"}

\* process_audio returned after building its filter chain
ChainBuilt ==
    /\ ppc = "returned" /\ stage \in ChainStages
    /\ pdata.pitch_shift # 0 \/ pdata.speed[1] # pdata.speed[2]

\* C5 as claimed: when process_audio has returned, on whatever path, no
\* temporary file it created is left.
C5_TempFilesRemoved == ppc = "returned" => tmp = {}

\* C6 as claimed: when process_audio returns success, the destination's tag
\* frames are exactly the source's.
C6_DestTagsEqualSource ==
    (ppc = "returned" /\ ~IsError(presult)) =>
        /\ dest.exists
        /\ LoadedTags(dest) = LoadedTags(source)

\* a trim fraction clamped to [0,1], over the same denominator
Clamp(t) == <<Min(Max(t[1], 0), t[2]), t[2]>>

\* C7 as claimed: with trim_start >= trim_end (both clamped to [0,1]),
\* process_audio returns an error and does not write the destination.
C7_InvalidRangeRejected ==
    (ppc = "returned"
        /\ Clamp(pdata.trim_start)[1] * pdata.trim_end[2]
              >= Clamp(pdata.trim_end)[1] * pdata.trim_start[2]) =>
        /\ IsError(presult)
        /\ ~dest.written

\* C8: for a speed greater than 0 and other than 1.0, every tempo stage of the
\* finished chain has a ratio in [0.5, 2.0] and the ratios multiply to the
\* speed.
C8_TempoChain ==
    (ChainBuilt /\ pdata.speed[1] > 0 /\ pdata.speed[1] # pdata.speed[2]) =>
        LET tempo == TempoStages(filters) IN
        /\ \A i \in 1..Len(tempo) :
              /\ tempo[i].den > 0
              /\ 2 * tempo[i].num >= tempo[i].den
              /\ tempo[i].num <= 2 * tempo[i].den
        /\ ProdNum(tempo) * pdata.speed[2] = ProdDen(tempo) * pdata.speed[1]

\* C8 witness: finished chains for speed 4.25 and for speed 0.25, each of
\* two or more tempo stages
C8_Witness ==
    /\ ChainBuilt /\ stage = "done"
    /\ pdata.speed \in {<<17, 4>>, <<1, 4>>}
    /\ Len(TempoStages(filters)) >= 2

\* C10 as claimed: with a non-zero pitch_shift the chain holds, after asetrate
\* and aresample, a tempo stage that cancels the duration change of the
\* resampling, combined with the speed: the output lasts the trimmed duration
\* divided by the speed, and with speed 1.0 exactly the trimmed duration.
C10_TempoCorrection ==
    (ChainBuilt /\ pdata.pitch_shift # 0 /\ pdata.speed[1] > 0) =>
        /\ Len(filters) > 2 /\ filters[3].name = "atempo"
        /\ stage = "done" =>
              dest.dur[1] * pdata.speed[1] = trimmed * dest.dur[2] * pdata.speed[2]

\* process_audio runs as one sequential call: a statement that can execute
\* does execute, so each step of the call is weakly fair; the caller's
\* decision to call is not
ProcFairness ==
    /\ WF_vars(ProcStart)
    /\ WF_vars(TempoStep)
    /\ WF_vars(ProcFinish)

SpecProcLive == ProcInit /\ [][NextProc]_vars /\ ProcFairness

DefaultNumSamples == 200

Commands == {"read", "write", "waveform", "process", "transform"}

\* the texts given as the JSON payload, in argv or on standard input
PayloadTexts ==
    {"{}", "{\"title\": \"a\", \"year\": \"\"}", "{\"pitch_shift\": 12}",
     "{\"speed\": 4.0, \"trim_end\": 0.5}", "[1]", "5", "{\"title\": ", ""}

\* json.loads(text): the kind of value, or "invalid" when it raises; for a
\* dict, w holds the keys write_tags looks at and p what process_audio gets
\* from data.get with its defaults
JsonLoads(text) ==
    CASE text = "{}" ->
            [kind |-> "dict", w |-> EmptyPayload, p |-> DefaultProcPayload]
      [] text = "{\"title\": \"a\", \"year\": \"\"}" ->
            [kind |-> "dict",
             w |-> [k \in {"title", "year"} |->
                       IF k = "title" THEN JStr(TxtA) ELSE JStr(Empty)],
             p |-> DefaultProcPayload]
      [] text = "{\"pitch_shift\": 12}" ->
            [kind |-> "dict", w |-> EmptyPayload,
             p |-> [DefaultProcPayload EXCEPT !.pitch_shift = 12]]
      [] text = "{\"speed\": 4.0, \"trim_end\": 0.5}" ->
            [kind |-> "dict", w |-> EmptyPayload,
             p |-> [DefaultProcPayload EXCEPT !.speed = <<16, 4>>,
                                              !.trim_end = <<2, 4>>]]
      [] text = "[1]" ->
            [kind |-> "list", w |-> EmptyPayload,
             p |-> [DefaultProcPayload EXCEPT !.isDict = FALSE]]
      [] text = "5" ->
            [kind |-> "number", w |-> EmptyPayload,
             p |-> [DefaultProcPayload EXCEPT !.isDict = FALSE]]
      [] OTHER ->
            [kind |-> "invalid", w |-> EmptyPayload, p |-> DefaultProcPayload]

\* the texts given as the sample count of the waveform command
CountTexts == {"4", "0", "-1", "many"}

\* int(text) raises ValueError
IntRaises(text) == text \notin {"4", "0", "-1"}

\* int(text)
IntValue(text) ==
    CASE text = "4" -> 4
      [] text = "0" -> 0
      [] text = "-1" -> -1

\* write_tags called with what json.loads returned.  A list passes every
\* "in" test as absent and has no get(); on a number the first "in" raises.
WriteCall(s, f, parsed, loadOk, saveOk, xattrOk) ==
    CASE parsed.kind = "dict" ->
            IF s = "mp3processor"
            THEN WriteTagsProcessor(f, parsed.w, loadOk, saveOk, xattrOk)
            ELSE WriteTagsTags(f, parsed.w, loadOk, saveOk)
      [] parsed.kind = "list" /\ s = "mp3tags" ->
            WriteTagsTags(f, EmptyPayload, loadOk, saveOk)
      [] OTHER -> [file |-> f, result |-> ErrorResult]

\* the line print(json.dumps(result)) writes
Line(r) == IF IsError(r) THEN "error" ELSE "ok"

Exit(code, err) ==
    /\ mpc' = "exited"
    /\ exitcode' = code
    /\ stderr' = err

\* print one error object and leave with status code
PrintError(code) ==
    /\ stdout' = Append(stdout, "error")
    /\ Exit(code, "")

\* an exception leaves main(): mp3processor.py catches it at the bottom of
\* the script and prints an error object; mp3tags.py calls main() bare
MainRaises(s) ==
    IF s = "mp3processor"
    THEN PrintError(0)
    ELSE /\ stdout' = stdout
         /\ Exit(1, "traceback")

InitMain ==
    /\ MainUnused
    /\ file \in {[id3 |-> FALSE, frames |-> NoFrames, whereFrom |-> << >>],
                 [id3 |-> TRUE, frames |-> FramesV23, whereFrom |-> <<TxtUrl>>]}
    /\ script = "none"
    /\ op = "none"
    /\ data = EmptyPayload
    /\ wresult = EmptyPayload
    /\ result = EmptyPayload
    /\ nwrites = 0
    /\ samples \in {<< >>, <<1, -2, 0>>}
    /\ num_samples = 0
    /\ decoded = FALSE
    /\ wave = NoWave
    /\ ProcIdle
    /\ source \in Sources
    /\ dest = NoDest

\* one run of a script up to its exit, or up to its call of process_audio
MainRun ==
    /\ mpc = "start"
    /\ \E s \in Scripts, nargs \in 1..5, command \in Commands,
          text \in PayloadTexts, count \in CountTexts,
          mutagenOk, pydubOk, loadOk, saveOk, xattrOk \in BOOLEAN,
          firstApic \in {"APIC:Cover", "APIC:"} :
          LET parsed == JsonLoads(text) IN
          /\ argv' = [script |-> s, command |-> command, nargs |-> nargs, text |-> text]
          /\ IF ~mutagenOk \/ nargs < 3
             THEN /\ PrintError(1)
                  /\ UNCHANGED <<tagVars, waveVars, procVars>>
             ELSE IF command = "read"
             THEN /\ firstApic \in ApicKeys(file.frames) \/ ApicKeys(file.frames) = {}
                  /\ result' = IF s = "mp3processor"
                               THEN ReadTagsProcessor(file, loadOk, firstApic, xattrOk)
                               ELSE ReadTagsTags(file, loadOk)
                  /\ script' = s
                  /\ op' = "read"
                  /\ stdout' = Append(stdout, Line(result'))
                  /\ Exit(0, "")
                  /\ UNCHANGED <<file, data, wresult, nwrites, waveVars, procVars>>
             ELSE IF command = "write"
             THEN IF parsed.kind = "invalid"
                  THEN /\ MainRaises(s)
                       /\ UNCHANGED <<tagVars, waveVars, procVars>>
                  ELSE LET w == WriteCall(s, file, parsed, loadOk, saveOk, xattrOk)
                       IN /\ file' = w.file
                          /\ result' = w.result
                          /\ wresult' = w.result
                          /\ data' = parsed.w
                          /\ script' = s
                          /\ op' = "write"
                          /\ nwrites' = nwrites + 1
                          /\ stdout' = Append(stdout, Line(w.result))
                          /\ Exit(0, "")
                          /\ UNCHANGED <<waveVars, procVars>>
             ELSE IF s = "mp3processor" /\ command = "waveform"
             THEN LET n == IF nargs >= 4 /\ ~IntRaises(count)
                           THEN IntValue(count) ELSE DefaultNumSamples
                  IN /\ num_samples' = n
                     /\ decoded' = (pydubOk /\ loadOk)
                     /\ wave' = GetWaveformResult(samples, n, pydubOk, loadOk)
                     /\ stdout' = Append(stdout, IF wave'.error THEN "error" ELSE "ok")
                     /\ Exit(0, "")
                     /\ UNCHANGED <<samples, tagVars, procVars>>
             ELSE IF s = "mp3processor" /\ command = "process"
             THEN IF nargs < 4
                  THEN /\ PrintError(1)
                       /\ UNCHANGED <<tagVars, waveVars, procVars>>
                  ELSE IF parsed.kind = "invalid"
                  THEN /\ MainRaises(s)
                       /\ UNCHANGED <<tagVars, waveVars, procVars>>
                  ELSE /\ pdata' = parsed.p
                       /\ ppc' = "called"
                       /\ mpc' = "in_process"
                       /\ UNCHANGED <<stage, source, dest, tmp, trimmed, filters,
                                      remaining_speed, presult>>
                       /\ UNCHANGED <<stdout, exitcode, stderr, tagVars, waveVars>>
             ELSE /\ PrintError(0)
                  /\ UNCHANGED <<tagVars, waveVars, procVars>>

\* process_audio has returned to main(): print its result and exit
MainPrint ==
    /\ mpc = "in_process"
    /\ ppc = "returned"
    /\ stdout' = Append(stdout, Line(presult))
    /\ Exit(0, "")
    /\ UNCHANGED <<argv, tagVars, waveVars, procVars>>

NextMain == MainRun \/ ProcStart \/ TempoStep \/ ProcFinish \/ MainPrint

SpecMain == InitMain /\ [][NextMain]_vars

\* C1 as claimed: a script that has ended has written exactly one line to
\* standard output, a success object or an error object.
C1_OneLine == mpc = "exited" => Len(stdout) = 1

====
